---- MODULE Spec2Model ----
(***************************************************************************)
(* A model of the TemplateString class (src/typings/shared.d.ts, lines     *)
(* 872-1173): the placeholder pattern, the constructor, render, validate   *)
(* and fork.  A text is a sequence of one-character strings; a JavaScript  *)
(* primitive value is a record that keeps its type, so that its textual    *)
(* form (`${value}`) is computed and not assumed.                          *)
(***************************************************************************)
EXTENDS Integers, Sequences, FiniteSets, TLC

VARIABLES tpl, made, last, forks, overridden, calls

vars == <<tpl, made, last, forks, overridden, calls>>

----------------------------------------------------------------------------
(* Bounds of the model *)

\* The generated template texts are made of at most MaxPieces pieces.
MaxPieces == 2

\* The length of a chain of forks.
MaxForks == 1

----------------------------------------------------------------------------
(* Primitive values *)

Undef == [k |-> "undef", s |-> <<>>, n |-> 0, b |-> FALSE]

Null == [k |-> "null", s |-> <<>>, n |-> 0, b |-> FALSE]

Str(s) == [k |-> "str", s |-> s, n |-> 0, b |-> FALSE]

Num(n) == [k |-> "num", s |-> <<>>, n |-> n, b |-> FALSE]

Bool(b) == [k |-> "bool", s |-> <<>>, n |-> 0, b |-> b]

\* a test of presence by truthiness: 0, false and "" count as absent
Present_Truthy(v) ==
  \/ v.k = "str" /\ v.s # <<>>
  \/ v.k = "num" /\ v.n # 0
  \/ v.k = "bool" /\ v.b

\* value !== undefined && value !== null
Present(v) == v.k \notin {"undef", "null"}

\* a ?? b that yields b for undefined only: null is taken as a value
Coalesce_UndefinedOnly(a, b) == IF a.k # "undef" THEN a ELSE b

\* a ?? b
Coalesce(a, b) == IF Present(a) THEN a ELSE b

\* JavaScript truthiness of a primitive, as `||` tests it
Truthy(v) ==
  CASE v.k = "str" -> v.s # <<>>
    [] v.k = "num" -> v.n # 0
    [] v.k = "bool" -> v.b
    [] OTHER -> FALSE

Digit(d) == <<"0", "1", "2", "3", "4", "5", "6", "7", "8", "9">>[d + 1]

RECURSIVE Digits(_)
Digits(n) == IF n < 10 THEN <<Digit(n)>> ELSE Digits(n \div 10) \o <<Digit(n % 10)>>

\* `${value}` of a present primitive
ToStr(v) ==
  CASE v.k = "str" -> v.s
    [] v.k = "num" -> Digits(v.n)
    [] v.k = "bool" -> IF v.b THEN <<"t", "r", "u", "e">> ELSE <<"f", "a", "l", "s", "e">>
    [] v.k = "null" -> <<"n", "u", "l", "l">>
    [] OTHER -> <<"u", "n", "d", "e", "f", "i", "n", "e", "d">>

\* obj[key] of a plain object given as a function; a missing key reads
\* undefined (the names of this model are no property of Object.prototype)
Lookup(obj, key) == IF key \in DOMAIN obj THEN obj[key] ELSE Undef

----------------------------------------------------------------------------
(* Strings *)

Chars(s) == {s[i] : i \in 1..Len(s)}

\* whether pat occurs in str at position i (1-based)
OccursAt(str, pat, i) ==
  /\ i >= 1
  /\ i + Len(pat) - 1 <= Len(str)
  /\ \A j \in 1..Len(pat) : str[i + j - 1] = pat[j]

\* the position of the first occurrence of pat in str at or after pos, 0 if none
IndexOf(str, pat, pos) ==
  LET hits == {i \in pos..(Len(str) - Len(pat) + 1) : OccursAt(str, pat, i)}
  IN  IF hits = {} THEN 0 ELSE CHOOSE i \in hits : \A j \in hits : i <= j

\* GetSubstitution of ECMAScript for a string pattern (no captures): the
\* replacement text rep with $$, $&, $<grave> and $' expanded; every other $ is
\* literal.  The grave accent is written "grave": it cannot stand in a string.
RECURSIVE GetSubstitution(_, _, _, _)
GetSubstitution(matched, str, position, rep) ==
  IF rep = <<>> THEN <<>>
  ELSE IF rep[1] = "$" /\ Len(rep) >= 2 /\ rep[2] \in {"$", "&", "grave", "'"}
  THEN (CASE rep[2] = "$" -> <<"$">>
          [] rep[2] = "&" -> matched
          [] rep[2] = "grave" -> SubSeq(str, 1, position - 1)
          [] OTHER -> SubSeq(str, position + Len(matched), Len(str)))
       \o GetSubstitution(matched, str, position, SubSeq(rep, 3, Len(rep)))
  ELSE <<rep[1]>> \o GetSubstitution(matched, str, position, Tail(rep))

\* String.prototype.replaceAll(pat, rep) with a non-empty string pattern
RECURSIVE ReplaceAllFrom(_, _, _, _)
ReplaceAllFrom(str, pat, rep, pos) ==
  LET i == IndexOf(str, pat, pos)
  IN  IF i = 0 THEN SubSeq(str, pos, Len(str))
      ELSE SubSeq(str, pos, i - 1) \o GetSubstitution(pat, str, i, rep)
           \o ReplaceAllFrom(str, pat, rep, i + Len(pat))

ReplaceAll(str, pat, rep) == ReplaceAllFrom(str, pat, rep, 1)

\* String.prototype.replace(pat, "") with a string pattern: the first
\* occurrence is removed
RemoveFirst(str, pat) ==
  LET i == IndexOf(str, pat, 1)
  IN  IF i = 0 THEN str
      ELSE SubSeq(str, 1, i - 1) \o SubSeq(str, i + Len(pat), Len(str))

----------------------------------------------------------------------------
(* The placeholder pattern and the scanner *)

\* constant(value) of src/lib/utils.mjs
constant(value) == value

\* static DEFAULT_START_TAG = constant("{")
DEFAULT_START_TAG == constant(<<"{">>)

\* static DEFAULT_END_TAG = constant("}")
DEFAULT_END_TAG == constant(<<"}">>)

Letters ==
  {"a", "b", "c", "d", "e", "f", "g", "h", "i", "j", "k", "l", "m", "n", "o",
   "p", "q", "r", "s", "t", "u", "v", "w", "x", "y", "z",
   "A", "B", "C", "D", "E", "F", "G", "H", "I", "J", "K", "L", "M", "N", "O",
   "P", "Q", "R", "S", "T", "U", "V", "W", "X", "Y", "Z"}

\* the class [A-Za-z0-9\-\_] of the pattern
NameChars == Letters \cup {Digit(d) : d \in 0..9} \cup {"-", "_"}

\* The text handed to new RegExp: the template literal
\*   (?<![${start}|${start[0]}])${start}[A-Za-z0-9\-\_]+?${end}(?![${end}|${end[0]}] )
\* in which \- and \_ stand for - and _ (a template literal drops the
\* backslash of a character that needs no escape).
PatternSource(start, end) ==
  <<"(", "?", "<", "!", "[">> \o start \o <<"|", start[1], "]", ")">>
    \o start
    \o <<"[", "A", "-", "Z", "a", "-", "z", "0", "-", "9", "-", "_", "]", "+", "?">>
    \o end
    \o <<"(", "?", "!", "[">> \o end \o <<"|", end[1], "]", " ", ")">>

\* the position of the "]" that closes the class whose content begins at
\* position j, 0 when the class is not closed; a backslash takes the next
\* character with it
RECURSIVE ClassEnd(_, _)
ClassEnd(src, j) ==
  IF j > Len(src) THEN 0
  ELSE IF src[j] = "\\" THEN ClassEnd(src, j + 2)
  ELSE IF src[j] = "]" THEN j
  ELSE ClassEnd(src, j + 1)

\* Whether new RegExp(src, "g") accepts src from position i on (the grammar of
\* ECMAScript with its Annex B, no u flag), for the sources PatternSource
\* makes of the tags of this model.  groups holds the kinds of the open
\* groups; prev tells what stands before position i: "atom" can take a
\* quantifier, "assert" (a look-behind, "$", "^") and "none" cannot.
\*   - a backslash at the end of the source is an error; before a character
\*     that is no letter or digit it makes that character an atom;
\*   - "[" opens a class that must be closed;
\*   - "(" opens a group, "(?<!" and "(?<=" a look-behind, "(?!" and "(?=" a
\*     look-ahead, "(?:" a group; any other "(?" is an error;
\*   - ")" closes the innermost group and is an error when none is open; a
\*     look-ahead can take a quantifier, a look-behind cannot;
\*   - "*", "+" and "?" need an atom before them; a "?" after one makes it lazy;
\*   - "{" not followed by a digit, "}" and "]" are characters like any other;
\*   - at the end every group must be closed;
\*   - every other character is an atom.
SyntaxCharacters == {"\\", "[", "(", ")", "*", "+", "?", "|", "$", "^"}

\* the walk is at a place where src is no pattern
Stuck == [ok |-> FALSE, i |-> 0, groups |-> <<>>, prev |-> "none"]

Walk(i, groups, prev) == [ok |-> TRUE, i |-> i, groups |-> groups, prev |-> prev]

\* one step of the walk, from position i of src
CompileStep(src, i, groups, prev) ==
  LET c == src[i]
      next(k) == IF i + k <= Len(src) THEN src[i + k] ELSE ""
      class == ClassEnd(src, i + 1)
  IN  CASE c \notin SyntaxCharacters -> Walk(i + 1, groups, "atom")
        [] c = "\\" -> IF i < Len(src) THEN Walk(i + 2, groups, "atom") ELSE Stuck
        [] c = "[" -> IF class # 0 THEN Walk(class + 1, groups, "atom") ELSE Stuck
        [] c = "(" ->
             IF next(1) # "?" THEN Walk(i + 1, Append(groups, "group"), "none")
             ELSE IF next(2) = "<" /\ next(3) \in {"!", "="}
             THEN Walk(i + 4, Append(groups, "behind"), "none")
             ELSE IF next(2) \in {"!", "="}
             THEN Walk(i + 3, Append(groups, "ahead"), "none")
             ELSE IF next(2) = ":"
             THEN Walk(i + 3, Append(groups, "group"), "none")
             ELSE Stuck
        [] c = ")" ->
             IF groups = <<>> THEN Stuck
             ELSE Walk(i + 1, SubSeq(groups, 1, Len(groups) - 1),
                       IF groups[Len(groups)] = "behind" THEN "assert" ELSE "atom")
        [] c \in {"*", "+", "?"} ->
             IF prev # "atom" THEN Stuck
             ELSE Walk(IF next(1) = "?" THEN i + 2 ELSE i + 1, groups, "none")
        [] c = "|" -> Walk(i + 1, groups, "none")
        [] OTHER -> Walk(i + 1, groups, "assert")

RECURSIVE Compiles(_, _, _, _)
Compiles(src, i, groups, prev) ==
  IF i > Len(src) THEN groups = <<>>
  ELSE LET s == CompileStep(src, i, groups, prev)
       IN  s.ok /\ Compiles(src, s.i, s.groups, s.prev)

\* Whether new RegExp throws for the text made of these tags.  With tags that
\* hold no syntax character and no "]", the text is the pattern's frame with
\* atoms put where the tags stand, which is a pattern; the grammar is walked
\* for the other tags.
RegExpThrows(start, end) ==
  /\ (Chars(start) \cup Chars(end)) \cap (SyntaxCharacters \cup {"]"}) # {}
  /\ ~Compiles(PatternSource(start, end), 1, <<>>, "none")

\* the pattern without its look-behind
getPlaceholderPattern_NoLookBehind(start, end) ==
  [open |-> start,
   close |-> end,
   behind |-> {},
   ahead |-> Chars(end) \cup {"|"} \cup {end[1]},
   aheadThen |-> " ",
   throws |-> RegExpThrows(start, end)]

\* The regular expression
\*   (?<![${start}|${start[0]}])${start}[A-Za-z0-9\-\_]+?${end}(?![${end}|${end[0]}] )
\* new RegExp throws when the text is no pattern (throws).  When it is one,
\* for tags made of characters that stand for themselves in a pattern and of
\* "$": the look-behind class holds the characters of start and "|", the
\* look-ahead is one character of the class of end and "|" FOLLOWED BY A
\* SPACE, and between them the pattern is start, the name, end.
getPlaceholderPattern(start, end) ==
  [open |-> start,
   close |-> end,
   behind |-> Chars(start) \cup {"|"} \cup {start[1]},
   ahead |-> Chars(end) \cup {"|"} \cup {end[1]},
   aheadThen |-> " ",
   throws |-> RegExpThrows(start, end)]

\* the number of characters a tag takes from the text: "$" in a pattern is
\* the end of the text and takes none
Width(tag) == Len(SelectSeq(tag, LAMBDA ch : ch # "$"))

\* whether the tag, as a piece of the pattern, matches at position i of text:
\* each character stands for itself, "$" for the end of the text
TagAt(text, tag, i) ==
  \A k \in 1..Len(tag) :
    LET pos == i + Width(SubSeq(tag, 1, k - 1))
    IN  IF tag[k] = "$" THEN pos = Len(text) + 1
        ELSE pos >= 1 /\ pos <= Len(text) /\ text[pos] = tag[k]

\* MatchLen for a pattern whose interior is any run of characters, the empty
\* one too
MatchLen_AnyInterior(p, text, i) ==
  LET o == Width(p.open)
      c == Width(p.close)
      lookbehind == i > 1 /\ text[i - 1] \in p.behind
      lookahead(e) == /\ e + 1 <= Len(text)
                      /\ text[e] \in p.ahead
                      /\ text[e + 1] = p.aheadThen
      fits(n) == /\ TagAt(text, p.close, i + o + n)
                 /\ ~lookahead(i + o + n + c)
      lens == {n \in 0..(Len(text) + 1 - i - o - c) : fits(n)}
  IN  IF lookbehind \/ ~TagAt(text, p.open, i) \/ lens = {} THEN 0
      ELSE o + c + (CHOOSE n \in lens : \A m \in lens : n <= m)

\* The length of the pattern's match that starts at position i of text, 0 when
\* there is none: the lazy name takes the fewest characters that let the rest match.
MatchLen(p, text, i) ==
  LET o == Width(p.open)
      c == Width(p.close)
      lookbehind == i > 1 /\ text[i - 1] \in p.behind
      lookahead(e) == /\ e + 1 <= Len(text)
                      /\ text[e] \in p.ahead
                      /\ text[e + 1] = p.aheadThen
      fits(n) == /\ \A j \in 0..(n - 1) : text[i + o + j] \in NameChars
                 /\ TagAt(text, p.close, i + o + n)
                 /\ ~lookahead(i + o + n + c)
      lens == {n \in 1..(Len(text) + 1 - i - o - c) : fits(n)}
  IN  IF lookbehind \/ ~TagAt(text, p.open, i) \/ lens = {} THEN 0
      ELSE o + c + (CHOOSE n \in lens : \A m \in lens : n <= m)

\* value.matchAll(pattern) from position pos on: the matches left to right,
\* each with its position (index, counted from 1 here) and its text (match[0]);
\* the search goes on after the end of a match
MatchAllFrom(p, text, pos) ==
  LET from[at \in 1..(Len(text) + 1)] ==
        IF at > Len(text) THEN <<>>
        ELSE LET n == MatchLen(p, text, at)
             IN  IF n = 0 THEN from[at + 1]
                 ELSE <<[index |-> at, match |-> SubSeq(text, at, at + n - 1)]>>
                      \o from[at + n]
  IN  from[pos]

\* Array.from(matches, (match) => match[0])
Matched(matches) == [i \in 1..Len(matches) |-> matches[i].match]

\* a list without the entries that repeat an earlier one
RECURSIVE Distinct(_)
Distinct(list) ==
  IF list = <<>> THEN <<>>
  ELSE LET front == Distinct(SubSeq(list, 1, Len(list) - 1))
           x == list[Len(list)]
       IN  IF \E i \in 1..Len(front) : front[i] = x THEN front ELSE Append(front, x)

\* #getRemainingPlaceholders that reports a span once
getRemainingPlaceholders_Distinct(t, value) ==
  Distinct(Matched(MatchAllFrom(t.pattern, value, 1)))

\* #getRemainingPlaceholders(value)
getRemainingPlaceholders(t, value) == Matched(MatchAllFrom(t.pattern, value, 1))

\* #getPlaceholders()
getPlaceholders(t) == getRemainingPlaceholders(t, t.raw)

----------------------------------------------------------------------------
(* Objects kept in insertion order: a sequence of <<key, value>> pairs *)

Keys(m) == {m[i][1] : i \in 1..Len(m)}

\* Put that gives every assignment an entry of its own
Put_Append(m, key, value) == Append(m, <<key, value>>)

\* m[key] = value: a new key goes last, a known key keeps its place
Put(m, key, value) ==
  IF key \in Keys(m)
  THEN [i \in 1..Len(m) |-> IF m[i][1] = key THEN <<key, value>> ELSE m[i]]
  ELSE Append(m, <<key, value>>)

\* Unwrap that forgets the end tag
Unwrap_StartOnly(placeholder, startTag, endTag) ==
  RemoveFirst(placeholder, startTag)

\* placeholder.replace(this.startTag, "").replace(this.endTag, "")
Unwrap(placeholder, startTag, endTag) ==
  RemoveFirst(RemoveFirst(placeholder, startTag), endTag)

\* #getPlaceholderMapping(): the loop from index i on.  The keys are spans, which
\* are never canonical array indices with the tags of this model, so for-in
\* visits them in insertion order.
RECURSIVE MappingFrom(_, _, _)
MappingFrom(t, i, mapping) ==
  IF i > Len(t.placeholders) THEN mapping
  ELSE MappingFrom(t, i + 1,
         Put(mapping, t.placeholders[i],
             Unwrap(t.placeholders[i], t.startTag, t.endTag)))

getPlaceholderMapping(t) == MappingFrom(t, 1, <<>>)

\* #getInitialReplacements(fallback)
getInitialReplacements(t, fallback) ==
  [prop \in {t.mapping[i][2] : i \in 1..Len(t.mapping)} |->
     Coalesce(Lookup(fallback, prop), Null)]

----------------------------------------------------------------------------
(* The constructor *)

\* the tags argument: not given, or an array whose elements 0 and 1 are
\* strings or, when the array is shorter or has a hole, undefined
NoTags == [given |-> FALSE, start |-> Undef, end |-> Undef]

TagsOf(start, end) == [given |-> TRUE, start |-> start, end |-> end]

\* [start, end] with two strings
Tags(start, end) == TagsOf(Str(start), Str(end))

\* the replacements argument when none is given (fallback = {})
NoReplacements == <<>>

\* the tag a constructor reads: tags?.[i] || DEFAULT
TagOr(tags, element, default) ==
  IF tags.given /\ Truthy(element) THEN element.s ELSE default

\* a constructor that takes the given tags only when both are given
NewTemplateString_BothOrNone(id, template, tags, replacements) ==
  LET both == tags.given /\ Truthy(tags.start) /\ Truthy(tags.end)
      startTag == IF both THEN tags.start.s ELSE DEFAULT_START_TAG
      endTag == IF both THEN tags.end.s ELSE DEFAULT_END_TAG
      pattern == getPlaceholderPattern(startTag, endTag)
      t1 == [id |-> id, raw |-> template, startTag |-> startTag, endTag |-> endTag,
             pattern |-> pattern]
      placeholders == getPlaceholders(t1)
      t2 == [id |-> id, raw |-> template, startTag |-> startTag, endTag |-> endTag,
             pattern |-> pattern, placeholders |-> placeholders]
      mapping == getPlaceholderMapping(t2)
      t3 == [id |-> id, raw |-> template, startTag |-> startTag, endTag |-> endTag,
             pattern |-> pattern, placeholders |-> placeholders,
             mapping |-> mapping]
  IN  IF pattern.throws THEN t1
      ELSE [id |-> id, raw |-> template, startTag |-> startTag, endTag |-> endTag,
            pattern |-> pattern, placeholders |-> placeholders,
            mapping |-> mapping,
            replacements |-> getInitialReplacements(t3, replacements)]

\* constructor(template, tags, replacements), field by field in the code's
\* order.  When getPlaceholderPattern throws, the constructor ends there: what
\* it has set by then is given back with pattern.throws, and no caller gets it.
NewTemplateString(id, template, tags, replacements) ==
  LET startTag == TagOr(tags, tags.start, DEFAULT_START_TAG)
      endTag == TagOr(tags, tags.end, DEFAULT_END_TAG)
      pattern == getPlaceholderPattern(startTag, endTag)
      t1 == [id |-> id, raw |-> template, startTag |-> startTag, endTag |-> endTag,
             pattern |-> pattern]
      placeholders == getPlaceholders(t1)
      t2 == [id |-> id, raw |-> template, startTag |-> startTag, endTag |-> endTag,
             pattern |-> pattern, placeholders |-> placeholders]
      mapping == getPlaceholderMapping(t2)
      t3 == [id |-> id, raw |-> template, startTag |-> startTag, endTag |-> endTag,
             pattern |-> pattern, placeholders |-> placeholders,
             mapping |-> mapping]
  IN  IF pattern.throws THEN t1
      ELSE [id |-> id, raw |-> template, startTag |-> startTag, endTag |-> endTag,
            pattern |-> pattern, placeholders |-> placeholders,
            mapping |-> mapping,
            replacements |-> getInitialReplacements(t3, replacements)]

\* what the caller holds when a constructor threw
NoObject == [id |-> 0]

\* new TemplateString(template, tags, replacements): the constructor throws
\* what getPlaceholderPattern throws, and then there is no object
New(id, template, tags, replacements) ==
  LET t == NewTemplateString(id, template, tags, replacements)
  IN  IF t.pattern.throws THEN [threw |-> TRUE, new |-> NoObject]
      ELSE [threw |-> FALSE, new |-> t]

----------------------------------------------------------------------------
(* validate, render, fork: each returns the receiver as the call leaves it    *)
(* (self) and the call's outcome                                              *)

NoCause == [template |-> <<>>, missingReplacements |-> <<>>]

\* validate that scans the receiver's own text instead of its argument
validate_ScansOwnText(t, value) ==
  LET remainingPlaceholders == getRemainingPlaceholders(t, t.raw)
  IN  IF Len(remainingPlaceholders) > 0
      THEN [self |-> t, threw |-> TRUE, out |-> <<>>,
            cause |-> [template |-> t.raw,
                       missingReplacements |-> remainingPlaceholders]]
      ELSE [self |-> t, threw |-> FALSE, out |-> <<>>, cause |-> NoCause]

\* validate that reports the text it was given as the template
validate_ReportsValue(t, value) ==
  LET remainingPlaceholders == getRemainingPlaceholders(t, value)
  IN  IF Len(remainingPlaceholders) > 0
      THEN [self |-> t, threw |-> TRUE, out |-> <<>>,
            cause |-> [template |-> value,
                       missingReplacements |-> remainingPlaceholders]]
      ELSE [self |-> t, threw |-> FALSE, out |-> <<>>, cause |-> NoCause]

\* validate(value): the Error's cause holds `${this}`, the receiver's own text
validate(t, value) ==
  LET remainingPlaceholders == getRemainingPlaceholders(t, value)
  IN  IF Len(remainingPlaceholders) > 0
      THEN [self |-> t, threw |-> TRUE, out |-> <<>>,
            cause |-> [template |-> t.raw,
                       missingReplacements |-> remainingPlaceholders]]
      ELSE [self |-> t, threw |-> FALSE, out |-> <<>>, cause |-> NoCause]

\* RenderStep with the precedence the wrong way round: the stored default wins
RenderStep_DefaultFirst(t, replacements, result, i) ==
  LET placeholder == t.mapping[i][1]
      k == t.mapping[i][2]
      value == Coalesce(t.replacements[k], Lookup(replacements, k))
  IN  IF Present(value) THEN ReplaceAll(result, placeholder, ToStr(value))
      ELSE result

\* RenderStep that tests the value against undefined only: null is substituted
RenderStep_NullIsPresent(t, replacements, result, i) ==
  LET placeholder == t.mapping[i][1]
      k == t.mapping[i][2]
      value == Coalesce(Lookup(replacements, k), t.replacements[k])
  IN  IF value.k # "undef" THEN ReplaceAll(result, placeholder, ToStr(value))
      ELSE result

\* one turn of render's loop, for the i-th key of this.mapping
RenderStep(t, replacements, result, i) ==
  LET placeholder == t.mapping[i][1]
      k == t.mapping[i][2]
      value == Coalesce(Lookup(replacements, k), t.replacements[k])
  IN  IF Present(value) THEN ReplaceAll(result, placeholder, ToStr(value))
      ELSE result

\* render's loop taking the keys of this.mapping from the last to the first
RECURSIVE RenderLoop_LastFirst(_, _, _, _)
RenderLoop_LastFirst(t, replacements, result, i) ==
  IF i > Len(t.mapping) THEN result
  ELSE RenderStep(t, replacements,
                  RenderLoop_LastFirst(t, replacements, result, i + 1), i)

\* render's loop from the i-th key of this.mapping on
RECURSIVE RenderLoop(_, _, _, _)
RenderLoop(t, replacements, result, i) ==
  IF i > Len(t.mapping) THEN result
  ELSE RenderLoop(t, replacements, RenderStep(t, replacements, result, i), i + 1)

\* render that keeps the values it was given as the new defaults
render_StoresOverrides(t, replacements, check) ==
  LET result == RenderLoop(t, replacements, t.raw, 1)
      v == validate(t, result)
      kept == [t EXCEPT !.replacements =
                 [k \in DOMAIN t.replacements |->
                    Coalesce(Lookup(replacements, k), t.replacements[k])]]
  IN  IF check /\ v.threw
      THEN [self |-> kept, threw |-> TRUE, out |-> <<>>, cause |-> v.cause]
      ELSE [self |-> kept, threw |-> FALSE, out |-> result, cause |-> NoCause]

\* render(replacements = {}, validate = false)
render(t, replacements, check) ==
  LET result == RenderLoop(t, replacements, t.raw, 1)
      v == validate(t, result)
  IN  IF check /\ v.threw THEN v
      ELSE [self |-> IF check THEN v.self ELSE t, threw |-> FALSE,
            out |-> result, cause |-> NoCause]

\* fromTemplate that hands the receiver's defaults on to the new Template
fromTemplate_KeepsDefaults(t, replacements, id) ==
  LET r == render(t, replacements, FALSE)
      c == New(id, r.out, Tags(r.self.startTag, r.self.endTag), r.self.replacements)
  IN  [self |-> r.self, threw |-> r.threw \/ c.threw, cause |-> r.cause,
       new |-> c.new]

\* fromTemplate that renders with validation
fromTemplate_Validates(t, replacements, id) ==
  LET r == render(t, replacements, TRUE)
      c == New(id, r.out, Tags(r.self.startTag, r.self.endTag), NoReplacements)
  IN  [self |-> r.self, threw |-> r.threw \/ c.threw, cause |-> r.cause,
       new |-> c.new]

\* static fromTemplate(template, replacements); id is the new object's
\* identity.  What render or the constructor throws, fromTemplate throws.
fromTemplate(t, replacements, id) ==
  LET r == render(t, replacements, FALSE)
      c == New(id, r.out, Tags(r.self.startTag, r.self.endTag), NoReplacements)
  IN  [self |-> r.self, threw |-> r.threw \/ c.threw, cause |-> r.cause,
       new |-> c.new]

\* fork(replacements)
fork(t, replacements, id) == fromTemplate(t, replacements, id)

----------------------------------------------------------------------------
(* The inputs of the model *)

nameA == <<"a">>

nameB == <<"b">>

spanA == <<"{", "a", "}">>

spanB == <<"{", "b", "}">>

\* the pieces the generated texts are made of: two spans, the marker
\* characters, the bar of the look-around classes and the look-ahead's space
Pieces == {spanA, spanB, <<"{">>, <<"}">>, <<"|">>, <<" ">>}

RECURSIVE PieceTexts(_)
PieceTexts(n) ==
  IF n = 0 THEN {<<>>}
  ELSE LET shorter == PieceTexts(n - 1)
       IN  shorter \cup {t \o p : t \in shorter, p \in Pieces}

\* "{a}-{a}-{b}"
TextDedup == spanA \o <<"-">> \o spanA \o <<"-">> \o spanB

\* "Hello {name}!"
TextHello == <<"H", "e", "l", "l", "o", " ", "{", "n", "a", "m", "e", "}", "!">>

\* "{x{a}}"
TextInside == <<"{", "x">> \o spanA \o <<"}">>

\* "{a} {{a}}"
TextGuarded == spanA \o <<" ", "{">> \o spanA \o <<"}">>

\* "{a}{a}{a}{b}"
TextThrice == spanA \o spanA \o spanA \o spanB

\* "{{a}}"
TextDoubled == <<"{">> \o spanA \o <<"}">>

\* "{a}} {b}"
TextTrailing == spanA \o <<"}", " ">> \o spanB

\* "{a}|{b}"
TextBar == spanA \o <<"|">> \o spanB

\* "{a}|{a}"
TextBarTwice == spanA \o <<"|">> \o spanA

\* "{a-1_}"
spanDash == <<"{", "a", "-", "1", "_", "}">>

\* "{}{ }{a.b}{a-1_}"
TextMalformed == <<"{", "}", "{", " ", "}", "{", "a", ".", "b", "}">> \o spanDash

ExampleTexts ==
  {TextDedup, TextHello, TextInside, TextGuarded, TextThrice, TextDoubled,
   TextTrailing, TextBar, TextBarTwice, TextMalformed}

Texts == PieceTexts(MaxPieces) \cup ExampleTexts

TagArgs ==
  {NoTags,
   Tags(<<>>, <<>>),
   Tags(<<"{", "{">>, <<"}", "}">>),
   Tags(<<"{", "{">>, <<>>),
   Tags(<<>>, <<"}", "}">>)}

\* the values a caller supplies for a name
Values ==
  {Undef, Null, Str(<<>>), Str(<<"v">>), Str(<<"|">>), Str(<<"{">>), Str(spanB),
   Str(<<"$", "&">>), Str(<<"$", "$">>), Num(0), Num(5), Bool(FALSE)}

\* the replacements given to the constructor
DefaultArgs ==
  {NoReplacements,
   (nameA :> Str(<<"d">>)),
   (nameA :> Num(0)) @@ (nameB :> Str(<<"e">>)),
   (nameA :> Null) @@ (nameB :> Bool(TRUE)),
   (nameA :> Str(<<>>)) @@ (nameB :> Bool(FALSE))}

\* the constructor's arguments after the text: <<tags, replacements>>
CtorArgs ==
  {<<NoTags, d>> : d \in DefaultArgs}
    \cup {<<g, NoReplacements>> : g \in TagArgs}
    \cup {<<Tags(<<"{", "{">>, <<"}", "}">>), (nameA :> Str(<<"d">>))>>}

\* the values that are absent or the plain text "v"
PlainValues == {Undef, Null, Str(<<"v">>)}

\* the replacements given to render and fork: a value for each name of the
\* template's contract, at most one of them other than a plain one, and for a
\* template without names nothing or a stray key
Overrides(t) ==
  IF DOMAIN t.replacements = {} THEN {NoReplacements, (nameA :> Num(5))}
  ELSE {R \in [DOMAIN t.replacements -> Values] :
          \A m, n \in DOMAIN R : (R[m] \notin PlainValues /\ R[n] \notin PlainValues) => m = n}

\* the texts given to validate
ValidateTexts(t) ==
  {t.raw, <<"v">>, spanA \o <<"v">> \o spanB, <<"|">> \o spanA,
   spanA \o <<"}", " ">>}

----------------------------------------------------------------------------------------------------------------------------------------------
(* The state: the Template the caller holds (tpl), what its constructor was  *)
(* given and built (made), the call that has just returned or thrown with    *)
(* its outcome (last; "idle" between calls), and the number of forks that    *)
(* led to tpl (forks).  The class is synchronous: a call runs to its end      *)
(* before the caller makes the next one.  overridden is a history variable:  *)
(* whether an earlier render of tpl was given a present value.  calls holds  *)
(* the calls under way when several callers share tpl (further down); here   *)
(* there is none.                                                            *)

Made(obj, text, tags, replacements) ==
  [obj |-> obj, text |-> text, tags |-> tags, replacements |-> replacements]

Call(op, R, check, text, res, recv, recvMade) ==
  [op |-> op, R |-> R, check |-> check, text |-> text, threw |-> res.threw,
   out |-> res.out, cause |-> res.cause, recv |-> recv, recvMade |-> recvMade]

NoResult == [threw |-> FALSE, out |-> <<>>, cause |-> NoCause]

Idle(t) == Call("idle", NoReplacements, FALSE, <<>>, NoResult, t, t)

\* no call is under way
NoCalls == <<>>

\* the caller holds a Template its constructor returned
Init ==
  \E text \in Texts, args \in CtorArgs :
    \E c \in {New(1, text, args[1], args[2])} :
      /\ ~c.threw
      /\ tpl = c.new
      /\ made = Made(c.new, text, args[1], args[2])
      /\ last = Idle(c.new)
      /\ forks = 0
      /\ overridden = FALSE
      /\ calls = NoCalls

\* tpl.render(R, check)
Render ==
  /\ last.op = "idle"
  /\ \E R \in Overrides(tpl), check \in BOOLEAN :
       \E r \in {render(tpl, R, check)} :
         /\ tpl' = r.self
         /\ last' = Call("render", R, check, <<>>, r, r.self, made.obj)
         /\ overridden' = (overridden \/ \E n \in DOMAIN R : Present(R[n]))
         /\ UNCHANGED <<made, forks, calls>>

\* tpl.validate(text)
Validate ==
  /\ last.op = "idle"
  /\ \E text \in ValidateTexts(tpl) :
       \E r \in {validate(tpl, text)} :
         /\ tpl' = r.self
         /\ last' = Call("validate", NoReplacements, FALSE, text, r, r.self,
                         made.obj)
         /\ UNCHANGED <<made, forks, overridden, calls>>

\* tpl.fork(R); the caller goes on with the new Template, or with the one it
\* has when the call throws
Fork ==
  /\ last.op = "idle"
  /\ forks < MaxForks
  /\ \E R \in Overrides(tpl) :
       \E r \in {fork(tpl, R, tpl.id + 1)} :
         /\ tpl' = IF r.threw THEN r.self ELSE r.new
         /\ made' = IF r.threw THEN made
                    ELSE Made(r.new, r.new.raw, Tags(tpl.startTag, tpl.endTag),
                              NoReplacements)
         /\ last' = Call("fork", R, FALSE, <<>>,
                         [threw |-> r.threw, out |-> <<>>, cause |-> r.cause],
                         r.self, made.obj)
         /\ forks' = IF r.threw THEN forks ELSE forks + 1
         /\ overridden' = IF r.threw THEN overridden ELSE FALSE
         /\ UNCHANGED calls

\* the caller has taken the outcome of the call and is free to call again
Return ==
  /\ last.op # "idle"
  /\ last' = Idle(tpl)
  /\ UNCHANGED <<tpl, made, forks, overridden, calls>>

Next == Render \/ Validate \/ Fork \/ Return

Spec == Init /\ [][Next]_vars

----------------------------------------------------------------------------
(* Construction by itself: a caller that makes Templates of texts and tags   *)
(* of any kind, tags with characters that mean something in a pattern among  *)
(* them.  tpl is what the last new TemplateString(...) gave: a Template, or  *)
(* nothing when the constructor threw.                                       *)

\* arrays with an element left out; tags with "*", "(", "[", "$" and the
\* backslash, and "<" ">" for plain ones
SpecialTagArgs ==
  {TagsOf(Str(<<"{", "{">>), Undef),
   TagsOf(Undef, Str(<<"}", "}">>)),
   Tags(<<"<">>, <<">">>),
   Tags(<<"$">>, <<"$">>),
   Tags(<<"{">>, <<"$">>),
   Tags(<<"*">>, <<"*">>),
   Tags(<<"(">>, <<>>),
   Tags(<<"{">>, <<"(">>),
   Tags(<<"<">>, <<"[">>),
   Tags(<<"\\">>, <<"\\">>)}

\* texts in which those tags stand around a name
SpecialTexts ==
  {<<"<", "a", ">">>, <<"$", "a", "$">>, <<"x", "{", "a", "b">>, <<"*", "a", "*">>,
   <<"(", "a", "}">>, <<"{", "a", "(">>, <<"<", "a", "[">>, <<"\\", "a", "\\">>}

InitNew ==
  /\ tpl = NoObject
  /\ made = Made(NoObject, <<>>, NoTags, NoReplacements)
  /\ last = Idle(NoObject)
  /\ forks = 0
  /\ overridden = FALSE
  /\ calls = NoCalls

\* new TemplateString(text, tags, replacements)
Construct ==
  /\ last.op = "idle"
  /\ \E text \in Texts \cup SpecialTexts, tags \in TagArgs \cup SpecialTagArgs,
        replacements \in DefaultArgs :
       \E c \in {New(1, text, tags, replacements)} :
         /\ tpl' = c.new
         /\ made' = Made(c.new, text, tags, replacements)
         /\ last' = Call("new", NoReplacements, FALSE, text,
                         [threw |-> c.threw, out |-> <<>>, cause |-> NoCause],
                         c.new, c.new)
         /\ UNCHANGED <<forks, overridden, calls>>

\* the caller has taken the outcome and lets go of what it was given
Discard ==
  /\ last.op = "new"
  /\ tpl' = NoObject
  /\ made' = Made(NoObject, <<>>, NoTags, NoReplacements)
  /\ last' = Idle(NoObject)
  /\ UNCHANGED <<forks, overridden, calls>>

NextNew == Construct \/ Discard

SpecNew == InitNew /\ [][NextNew]_vars

----------------------------------------------------------------------------
(* Several callers on one Template.  Each caller's call is followed          *)
(* statement by statement, and the statements of different callers come in   *)
(* any order: a call begins (result = this.valueOf(), or the argument of     *)
(* validate or of the constructor), render's loop takes one turn per key of  *)
(* this.mapping, reading the Template as it is at that turn, and the call    *)
(* ends with validate's scan, with the return of the text or with the        *)
(* constructor, field by field.  calls[c] is caller c's call: where it stands (pc), its      *)
(* arguments, its local result, the turns and scans it has made, and its     *)
(* outcome; recv is the Template as it was when the call began and amid      *)
(* tells whether another caller was in the middle of a loop at that time.    *)

Callers == {"c1", "c2"}

\* the texts and constructor arguments of the shared Template
SharedTexts == {TextDedup, TextThrice, TextBar}

SharedArgs == {<<NoTags, NoReplacements>>, <<NoTags, (nameA :> Str(<<"d">>))>>}

\* the replacements the callers give: nothing, "v" for the first name, or
\* for the first name a value that is the span of the second, with or
\* without "v" for the second
CallOverrides(t) ==
  {R \in Overrides(t) :
     \A n \in DOMAIN R :
       \/ R[n] = Undef
       \/ n = nameA /\ R[n] \in {Str(<<"v">>), Str(spanB)}
       \/ n = nameB /\ R[n] = Str(<<"v">>) /\ R[nameA] = Str(spanB)}

\* the texts the callers give to validate
CallTexts(t) == {t.raw, <<"v">>}

\* a caller that is not calling
Await ==
  [op |-> "none", pc |-> "idle", R |-> NoReplacements, check |-> FALSE,
   tags |-> NoTags, i |-> 0, result |-> <<>>, steps |-> 0, scans |-> 0,
   threw |-> FALSE, out |-> <<>>, cause |-> NoCause, new |-> NoObject,
   recv |-> NoObject, amid |-> FALSE]

\* whether a caller other than c is in the middle of render's loop
Amid(c) == \E d \in Callers \ {c} : calls[d].pc = "loop" /\ calls[d].i > 1

\* an identity no object in use has: every new makes an object of its own
FreshId ==
  LET used == {tpl.id} \cup {calls[c].new.id : c \in Callers}
  IN  CHOOSE i \in 1..(Cardinality(Callers) + 2) :
        i \notin used /\ \A j \in 1..(i - 1) : j \in used

InitCalls ==
  \E text \in SharedTexts, args \in SharedArgs :
    \E c \in {New(1, text, args[1], args[2])} :
      /\ tpl = c.new
      /\ made = Made(c.new, text, args[1], args[2])
      /\ last = Idle(c.new)
      /\ forks = 0
      /\ overridden = FALSE
      /\ calls = [d \in Callers |-> Await]

\* c calls tpl.render(R, check): let result = this.valueOf()
CallRender(c) ==
  /\ calls[c].pc = "idle"
  /\ \E R \in CallOverrides(tpl), check \in BOOLEAN :
       calls' = [calls EXCEPT ![c] =
                   [Await EXCEPT !.op = "render", !.pc = "loop", !.R = R,
                                 !.check = check, !.i = 1, !.result = tpl.raw,
                                 !.recv = tpl, !.amid = Amid(c)]]
  /\ UNCHANGED <<tpl, made, last, forks, overridden>>

\* c calls tpl.fork(R): fromTemplate calls template.render(replacements, false)
CallFork(c) ==
  /\ calls[c].pc = "idle"
  /\ \E R \in CallOverrides(tpl) :
       calls' = [calls EXCEPT ![c] =
                   [Await EXCEPT !.op = "fork", !.pc = "loop", !.R = R,
                                 !.i = 1, !.result = tpl.raw,
                                 !.recv = tpl, !.amid = Amid(c)]]
  /\ UNCHANGED <<tpl, made, last, forks, overridden>>

\* c calls tpl.validate(text)
CallValidate(c) ==
  /\ calls[c].pc = "idle"
  /\ \E text \in CallTexts(tpl) :
       calls' = [calls EXCEPT ![c] =
                   [Await EXCEPT !.op = "validate", !.pc = "scan",
                                 !.result = text, !.recv = tpl,
                                 !.amid = Amid(c)]]
  /\ UNCHANGED <<tpl, made, last, forks, overridden>>

\* c calls new TemplateString(text, tags)
CallNew(c) ==
  /\ calls[c].pc = "idle"
  /\ \E text \in SharedTexts, tags \in {NoTags, Tags(<<"{", "{">>, <<"}", "}">>)} :
       calls' = [calls EXCEPT ![c] =
                   [Await EXCEPT !.op = "new", !.pc = "new", !.result = text,
                                 !.tags = tags, !.recv = tpl,
                                 !.amid = Amid(c)]]
  /\ UNCHANGED <<tpl, made, last, forks, overridden>>

\* a turn of render's loop that also keeps the value it resolved as the
\* Template's default for the name
Turn_KeepsValue(c) ==
  /\ calls[c].pc = "loop"
  /\ calls[c].i <= Len(tpl.mapping)
  /\ LET name == tpl.mapping[calls[c].i][2]
         value == Coalesce(Lookup(calls[c].R, name), tpl.replacements[name])
     IN  tpl' = [tpl EXCEPT !.replacements[name] = value]
  /\ calls' = [calls EXCEPT
                 ![c].result = RenderStep(tpl, calls[c].R, calls[c].result, calls[c].i),
                 ![c].i = calls[c].i + 1,
                 ![c].steps = calls[c].steps + 1]
  /\ UNCHANGED <<made, last, forks, overridden>>

\* one turn of render's loop in c's call, for the next key of this.mapping
Turn(c) ==
  /\ calls[c].pc = "loop"
  /\ calls[c].i <= Len(tpl.mapping)
  /\ calls' = [calls EXCEPT
                 ![c].result = RenderStep(tpl, calls[c].R, calls[c].result, calls[c].i),
                 ![c].i = calls[c].i + 1,
                 ![c].steps = calls[c].steps + 1]
  /\ UNCHANGED <<tpl, made, last, forks, overridden>>

\* the loop of c's call is over
LoopDone(c) == calls[c].pc = "loop" /\ calls[c].i > Len(tpl.mapping)

\* this.validate(result) at the end of render, or the validate c called: it
\* throws, or render returns result
Check(c) ==
  /\ \/ calls[c].pc = "scan"
     \/ LoopDone(c) /\ calls[c].op = "render" /\ calls[c].check
  /\ \E v \in {validate(tpl, calls[c].result)} :
       calls' = [calls EXCEPT
                   ![c].pc = "done",
                   ![c].scans = calls[c].scans + 1,
                   ![c].threw = v.threw,
                   ![c].cause = v.cause,
                   ![c].out = IF ~v.threw /\ calls[c].op = "render"
                              THEN calls[c].result ELSE <<>>]
  /\ UNCHANGED <<tpl, made, last, forks, overridden>>

\* render without validation returns result
Give(c) ==
  /\ LoopDone(c) /\ calls[c].op = "render" /\ ~calls[c].check
  /\ calls' = [calls EXCEPT ![c].pc = "done", ![c].out = calls[c].result]
  /\ UNCHANGED <<tpl, made, last, forks, overridden>>

\* new TemplateString(newTemplate, [template.startTag, template.endTag]) at
\* the end of fromTemplate, or the constructor c called: the constructor's
\* statements up to this.pattern = ..., which throws what new RegExp throws
SetPattern(c) ==
  /\ \/ calls[c].pc = "new"
     \/ LoopDone(c) /\ calls[c].op = "fork"
  /\ LET tags == IF calls[c].op = "fork" THEN Tags(tpl.startTag, tpl.endTag)
                 ELSE calls[c].tags
         startTag == TagOr(tags, tags.start, DEFAULT_START_TAG)
         endTag == TagOr(tags, tags.end, DEFAULT_END_TAG)
         pattern == getPlaceholderPattern(startTag, endTag)
     IN  calls' = [calls EXCEPT
                     ![c].pc = IF pattern.throws THEN "done" ELSE "placeholders",
                     ![c].threw = pattern.throws,
                     ![c].new = IF pattern.throws THEN NoObject
                                ELSE [id |-> FreshId, raw |-> calls[c].result,
                                      startTag |-> startTag, endTag |-> endTag,
                                      pattern |-> pattern]]
  /\ UNCHANGED <<tpl, made, last, forks, overridden>>

\* this.placeholders = this.#getPlaceholders()
SetPlaceholders(c) ==
  /\ calls[c].pc = "placeholders"
  /\ LET t == calls[c].new
     IN  calls' = [calls EXCEPT
                     ![c].pc = "mapping",
                     ![c].new = [id |-> t.id, raw |-> t.raw, startTag |-> t.startTag,
                                 endTag |-> t.endTag, pattern |-> t.pattern,
                                 placeholders |-> getPlaceholders(t)]]
  /\ UNCHANGED <<tpl, made, last, forks, overridden>>

\* this.mapping = this.#getPlaceholderMapping()
SetMapping(c) ==
  /\ calls[c].pc = "mapping"
  /\ LET t == calls[c].new
     IN  calls' = [calls EXCEPT
                     ![c].pc = "replacements",
                     ![c].new = [id |-> t.id, raw |-> t.raw, startTag |-> t.startTag,
                                 endTag |-> t.endTag, pattern |-> t.pattern,
                                 placeholders |-> t.placeholders,
                                 mapping |-> getPlaceholderMapping(t)]]
  /\ UNCHANGED <<tpl, made, last, forks, overridden>>

\* this.replacements = this.#getInitialReplacements(replacements), and the
\* constructor returns
SetReplacements(c) ==
  /\ calls[c].pc = "replacements"
  /\ LET t == calls[c].new
     IN  calls' = [calls EXCEPT
                     ![c].pc = "done",
                     ![c].new = [id |-> t.id, raw |-> t.raw, startTag |-> t.startTag,
                                 endTag |-> t.endTag, pattern |-> t.pattern,
                                 placeholders |-> t.placeholders,
                                 mapping |-> t.mapping,
                                 replacements |->
                                   getInitialReplacements(t, NoReplacements)]]
  /\ UNCHANGED <<tpl, made, last, forks, overridden>>

\* the next statement of c's call
Step(c) ==
  \/ Turn(c)
  \/ Check(c)
  \/ Give(c)
  \/ SetPattern(c)
  \/ SetPlaceholders(c)
  \/ SetMapping(c)
  \/ SetReplacements(c)

\* c has taken the outcome of its call and is free to call again
Take(c) ==
  /\ calls[c].pc = "done"
  /\ calls' = [calls EXCEPT ![c] = Await]
  /\ UNCHANGED <<tpl, made, last, forks, overridden>>

\* what caller c does next
NextOf(c) ==
  \/ CallRender(c)
  \/ CallFork(c)
  \/ CallValidate(c)
  \/ CallNew(c)
  \/ Step(c)
  \/ Take(c)

NextCalls == \E c \in Callers : NextOf(c)

SpecCalls == InitCalls /\ [][NextCalls]_vars

\* One caller by itself, as JavaScript runs the class: call after call, and
\* a call that has begun goes on, for the engine runs the statements of a
\* synchronous call one after the other until it returns or throws.
NextCall == NextOf("c1")

FairCall == InitCalls /\ [][NextCall]_vars /\ WF_vars(Step("c1"))

----------------------------------------------------------------------------
(* What the claims speak of *)

\* the bare names of a Template's contract
Names(t) == {t.mapping[i][2] : i \in 1..Len(t.mapping)}

Contains(text, part) == IndexOf(text, part, 1) # 0

\* the number of occurrences of part in text from position pos on, left to
\* right and not overlapping
RECURSIVE CountFrom(_, _, _)
CountFrom(text, part, pos) ==
  LET i == IndexOf(text, part, pos)
  IN  IF i = 0 THEN 0 ELSE 1 + CountFrom(text, part, i + Len(part))

Count(text, part) == CountFrom(text, part, 1)

\* the value the last call gave for a name, and the one the constructor got
Given(name) == Lookup(last.R, name)

CtorDefault(name) == Lookup(made.replacements, name)

\* the value a name resolves to by the stated precedence: the override when
\* one is present, else the constructor's default
Resolved(name) == IF Present(Given(name)) THEN Given(name) ELSE CtorDefault(name)

\* the last call was render({N: v}): N is the only key with a present value
OnlyGiven(name) ==
  /\ Present(Given(name))
  /\ \A n \in DOMAIN last.R : n # name => ~Present(last.R[n])

DefaultTags == tpl.startTag = <<"{">> /\ tpl.endTag = <<"}">>

\* create(T): default tags and no initial replacements
Created == made.tags = NoTags /\ made.replacements = NoReplacements

Returned(op) == last.op = op /\ ~last.threw

\* the text the last render call produced before any validation
Rendered == render(tpl, last.R, FALSE).out

\* the scan of a text with the tags of tpl
Scan(text) == Matched(MatchAllFrom(tpl.pattern, text, 1))

----------------------------------------------------------------------------
(* C1 *)

\* C1 (multiplicity): when render({N: v}) returns, with v present and N a
\* name whose span the scanner found in the text, no occurrence of that span
\* remains in the returned text: all of them were replaced by the textual form
\* of v.  Stated for values that share no character with the span, so that an
\* occurrence in the result can only be one that was left in place.
C1_AllOccurrencesReplaced ==
  Returned("render") =>
    \A i \in 1..Len(tpl.mapping) :
      LET span == tpl.mapping[i][1]
          name == tpl.mapping[i][2]
      IN  (/\ OnlyGiven(name)
           /\ \A n \in Names(tpl) :
                Present(Resolved(n)) =>
                  Chars(ToStr(Resolved(n))) \cap Chars(span) = {})
          => ~Contains(last.out, span)

\* The same for values whose text holds no "$": there every occurrence goes.
C1_AllOccurrencesReplacedNoDollar ==
  Returned("render") =>
    \A i \in 1..Len(tpl.mapping) :
      LET span == tpl.mapping[i][1]
          name == tpl.mapping[i][2]
      IN  (/\ OnlyGiven(name)
           /\ \A n \in Names(tpl) :
                Present(Resolved(n)) =>
                  Chars(ToStr(Resolved(n))) \cap (Chars(span) \cup {"$"}) = {})
          => ~Contains(last.out, span)

----------------------------------------------------------------------------
(* C2 *)

\* C2 (exact replacement): for a Template made by create(T) in whose text the
\* span {N} occurs exactly once, as a scanned placeholder, render({N: v}) with
\* any present v returns T with that occurrence replaced by exactly the
\* textual form of v, every other character unchanged.
C2_ExactReplacement ==
  (Returned("render") /\ Created) =>
    \A i \in 1..Len(tpl.mapping) :
      LET span == tpl.mapping[i][1]
          name == tpl.mapping[i][2]
          at == IndexOf(tpl.raw, span, 1)
      IN  (OnlyGiven(name) /\ Count(tpl.raw, span) = 1)
          => last.out = SubSeq(tpl.raw, 1, at - 1) \o ToStr(Given(name))
                        \o SubSeq(tpl.raw, at + Len(span), Len(tpl.raw))

\* The same for values whose text holds no "$".
C2_ExactReplacementNoDollar ==
  (Returned("render") /\ Created) =>
    \A i \in 1..Len(tpl.mapping) :
      LET span == tpl.mapping[i][1]
          name == tpl.mapping[i][2]
          at == IndexOf(tpl.raw, span, 1)
      IN  (/\ OnlyGiven(name)
           /\ Count(tpl.raw, span) = 1
           /\ "$" \notin Chars(ToStr(Given(name))))
          => last.out = SubSeq(tpl.raw, 1, at - 1) \o ToStr(Given(name))
                        \o SubSeq(tpl.raw, at + Len(span), Len(tpl.raw))

----------------------------------------------------------------------------
(* C3 *)

\* the text got from text by substituting, span by span in the order of
\* mapping, the present values of val
RECURSIVE SubstituteFrom(_, _, _, _)
SubstituteFrom(mapping, val, text, i) ==
  IF i > Len(mapping) THEN text
  ELSE LET v == val[mapping[i][2]]
       IN  SubstituteFrom(mapping, val,
             IF Present(v) THEN ReplaceAll(text, mapping[i][1], ToStr(v)) ELSE text,
             i + 1)

NoOverrides == \A n \in DOMAIN last.R : ~Present(last.R[n])

\* C3 (value precedence): the text render(overrides) returns is the text of
\* the Template with each name resolved to its override when one is present
\* and otherwise to the default given to the constructor; and whatever calls
\* came before, a render without overrides returns the text got from the
\* constructor's defaults alone.
C3_Precedence ==
  Returned("render") =>
    /\ last.out = SubstituteFrom(made.obj.mapping,
                                 [n \in Names(made.obj) |-> Resolved(n)],
                                 made.text, 1)
    /\ NoOverrides =>
         last.out = SubstituteFrom(made.obj.mapping,
                                   [n \in Names(made.obj) |-> CtorDefault(n)],
                                   made.text, 1)

\* a render without overrides, after a render whose override replaced a
\* default, on a Template one of whose defaults is substituted
C3_Witness ==
  /\ Returned("render")
  /\ NoOverrides
  /\ overridden
  /\ last.out # made.text
  /\ \E n \in Names(tpl) : Present(CtorDefault(n))

----------------------------------------------------------------------------
(* C4 *)

\* C4 (validation is a re-scan): validate(text) throws exactly when the scan
\* of text with the Template's tags is not empty; render(R, true) throws
\* exactly when that scan of the text render(R, false) returns is not empty,
\* and otherwise returns that text; render(R, false) never throws.
C4_ValidationIsRescan ==
  /\ last.op = "validate" => (last.threw <=> Scan(last.text) # <<>>)
  /\ (last.op = "render" /\ last.check) =>
       /\ last.threw <=> Scan(Rendered) # <<>>
       /\ ~last.threw => last.out = Rendered
  /\ (last.op = "render" /\ ~last.check) => ~last.threw

\* render(R, true) throws although it substituted something
C4_Witness ==
  /\ last.op = "render"
  /\ last.check
  /\ last.threw
  /\ Rendered # tpl.raw
  /\ Len(Scan(Rendered)) < Len(tpl.placeholders)

----------------------------------------------------------------------------
(* C5 *)

\* C5 (validation soundness): whenever render(R, true) returns, every name of
\* the Template resolved to a present value and none of the Template's
\* scanned spans is left in the returned text.
C5_ValidatedMeansResolved ==
  (Returned("render") /\ last.check) =>
    /\ \A n \in Names(tpl) : Present(Resolved(n))
    /\ \A i \in 1..Len(tpl.mapping) :
         Present(Resolved(tpl.mapping[i][2])) \/ ~Contains(last.out, tpl.mapping[i][1])

----------------------------------------------------------------------------
(* C6 *)

\* the text in which the failed call found its unresolved spans
Offending == IF last.op = "render" THEN Rendered ELSE last.text

Failed == last.op \in {"render", "validate"} /\ last.threw

\* "{name}"
spanName == <<"{", "n", "a", "m", "e", "}">>

\* C6 as stated: the failure carries the offending (rendered or validated)
\* text as `template` and the spans that remain in it as `missingReplacements`.
C6_CauseHoldsOffendingText ==
  Failed =>
    /\ last.cause.template = Offending
    /\ last.cause.missingReplacements = Scan(Offending)

\* C6 (amended): when render(R, true) or validate(text) fails, `template` is
\* the Template's own raw text, the one given to its constructor, and
\* `missingReplacements` is the list of the spans that remain in the rendered
\* or validated text, left to right, one entry per occurrence; for
\* create("Hello {name}!").render({}, true) it is ["{name}"].
C6_CauseHoldsTemplateText ==
  /\ Failed =>
       /\ last.cause.template = made.text
       /\ last.cause.missingReplacements = Scan(Offending)
  /\ (last.op = "render" /\ last.check /\ made.text = TextHello /\ Created
        /\ NoOverrides) =>
       /\ last.threw
       /\ last.cause.missingReplacements = <<spanName>>

\* a failed render whose rendered text is not the Template's text and still
\* holds the same span twice
C6_Witness ==
  /\ last.op = "render"
  /\ last.threw
  /\ Rendered # made.text
  /\ \E i, j \in 1..Len(last.cause.missingReplacements) :
       i # j /\ last.cause.missingReplacements[i] = last.cause.missingReplacements[j]

----------------------------------------------------------------------------
(* C7 *)

\* C7 (validation success): with default tags, when R gives every name of the
\* Template a present value whose text holds no tag character, render(R,
\* true) returns, and returns the text with every placeholder substituted.
C7_CompleteSetValidates ==
  (/\ last.op = "render"
   /\ last.check
   /\ DefaultTags
   /\ \A n \in Names(tpl) :
        /\ Present(Given(n))
        /\ Chars(ToStr(Given(n))) \cap {"{", "}"} = {})
  => /\ ~last.threw
     /\ \A i \in 1..Len(tpl.placeholders) : ~Contains(last.out, tpl.placeholders[i])


\* The same for values whose text holds no "$" either: the failure that is
\* left is the one of "{x{a}}".
C7_CompleteSetValidatesNoDollar ==
  (/\ last.op = "render"
   /\ last.check
   /\ DefaultTags
   /\ \A n \in Names(tpl) :
        /\ Present(Given(n))
        /\ Chars(ToStr(Given(n))) \cap {"{", "}", "$"} = {})
  => /\ ~last.threw
     /\ \A i \in 1..Len(tpl.placeholders) : ~Contains(last.out, tpl.placeholders[i])

----------------------------------------------------------------------------
(* C8 *)

\* C8 (identity render): when no name of the Template resolves to a present
\* value (there is no placeholder, or neither the call nor the constructor
\* gave a value), render(R) returns the raw text unchanged, and so does
\* render(R, true) when it returns; and for a text without placeholders
\* validate of that text and render(R, true) do not throw.
C8_IdentityRender ==
  /\ (last.op = "render" /\ \A n \in Names(tpl) : ~Present(Resolved(n))) =>
       /\ ~last.check => ~last.threw
       /\ ~last.threw => last.out = made.text
  /\ (last.op = "render" /\ tpl.placeholders = <<>>) => ~last.threw
  /\ (last.op = "validate" /\ tpl.placeholders = <<>> /\ last.text = made.text) =>
       ~last.threw

\* render returns the text unchanged for a Template that has placeholders and
\* a default that is null, called with a null override
C8_Witness ==
  /\ Returned("render")
  /\ Len(tpl.placeholders) >= 2
  /\ \E n \in Names(tpl) : n \in DOMAIN made.replacements /\ Given(n) = Null
  /\ \A n \in Names(tpl) : ~Present(Resolved(n))
  /\ last.out = made.text

----------------------------------------------------------------------------
(* C9 *)

\* C9 (frame): after any sequence of render, validate and fork calls, failed
\* ones included, the Template is as its constructor built it (raw text, tags,
\* placeholder list, span-to-name mapping, name-to-value defaults); fork
\* leaves its receiver so too and returns another object.
C9_Frame ==
  /\ tpl = made.obj
  /\ last.recv = last.recvMade
  /\ last.op = "fork" => tpl.id # last.recv.id
  /\ last.op # "fork" => last.recv = tpl

\* a fork that substituted a value: the new Template has another text, the
\* receiver has kept its own
C9_Witness ==
  /\ last.op = "fork"
  /\ tpl.raw # last.recv.raw
  /\ \E n \in Names(last.recv) : Present(Given(n)) /\ Present(last.recv.replacements[n])

----------------------------------------------------------------------------
(* C10 *)

Elems(seq) == {seq[i] : i \in 1..Len(seq)}

\* the interior of a span: what lies between its start tag and its end tag
Interior(span, startTag, endTag) ==
  SubSeq(span, Len(startTag) + 1, Len(span) - Len(endTag))

WellFormed(t, defaults) ==
  /\ t.pattern = getPlaceholderPattern(t.startTag, t.endTag)
  /\ t.placeholders = Matched(MatchAllFrom(t.pattern, t.raw, 1))
  /\ Keys(t.mapping) = Elems(t.placeholders)
  /\ \A i, j \in 1..Len(t.mapping) : t.mapping[i][1] = t.mapping[j][1] => i = j
  /\ \A i \in 1..Len(t.mapping) :
       LET span == t.mapping[i][1]
       IN  /\ t.mapping[i][2] = Interior(span, t.startTag, t.endTag)
           /\ span = t.startTag \o t.mapping[i][2] \o t.endTag
           /\ t.mapping[i][2] # <<>>
  /\ DOMAIN t.replacements = {Interior(p, t.startTag, t.endTag) : p \in Elems(t.placeholders)}
  /\ \A n \in DOMAIN t.replacements :
       t.replacements[n] = IF Present(Lookup(defaults, n)) THEN defaults[n] ELSE Null

\* C10 (data model): for the Template the caller holds, built by the
\* constructor or by a chain of forks, and for the receiver of a fork: the
\* placeholder list is the scan of the raw text; the keys of the mapping are
\* the spans of the list; each mapped name is the span's interior; the
\* defaults have one entry per distinct name, the value given to the
\* constructor or null.  "{a}-{a}-{b}" has three list entries and the names
\* a and b.
C10_DataModel ==
  /\ WellFormed(tpl, made.replacements)
  /\ last.op = "fork" => WellFormed(last.recv, last.recv.replacements)
  /\ (made.text = TextDedup /\ DefaultTags) =>
       /\ tpl.placeholders = <<spanA, spanA, spanB>>
       /\ DOMAIN tpl.replacements = {nameA, nameB}

\* a forked Template, its text another than its receiver's, that lists a
\* span more than once
C10_Witness ==
  /\ forks = 1
  /\ last.op = "fork"
  /\ tpl.raw # last.recv.raw
  /\ Len(tpl.placeholders) >= 3
  /\ Cardinality(DOMAIN tpl.replacements) < Len(tpl.placeholders)

----------------------------------------------------------------------------
(* C11 *)

\* the last call was a fork: tpl is the new Template, last.recv the receiver
Forked == last.op = "fork"

\* C11 (round trip): the text given to the constructor of t.fork(R) is the
\* text t.render(R) returns, and a render without overrides of the forked
\* Template returns that same text, also when a substituted value brought a
\* new span into it; it is still so after other calls on the fork.
C11_RoundTrip ==
  /\ Forked =>
       /\ made.text = render(last.recv, last.R, FALSE).out
       /\ render(tpl, NoReplacements, FALSE).out = render(last.recv, last.R, FALSE).out
  /\ (forks >= 1 /\ Returned("render") /\ NoOverrides) => last.out = made.text

\* a fork whose text differs from the receiver's and holds a span of a name
\* the receiver does not have: a substituted value brought it
C11_Witness ==
  /\ Forked
  /\ tpl.raw # last.recv.raw
  /\ \E n \in Names(tpl) : n \notin Names(last.recv)

----------------------------------------------------------------------------
(* C12 *)

\* the text of the receiver with, span by span, the present values of R
\* substituted and nothing else
AppliedGiven ==
  SubstituteFrom(last.recv.mapping, [n \in Names(last.recv) |-> Given(n)],
                 last.recv.raw, 1)

\* C12 (fork uses only the given replacements): the text of t.fork(R) is the
\* text of t with the present values of R substituted and nothing else: a
\* span whose name has no present value in R is still in the forked text,
\* also when t holds a default for that name.
C12_ForkUsesOnlyGiven ==
  Forked =>
    /\ tpl.raw = AppliedGiven
    /\ \A i \in 1..Len(last.recv.mapping) :
         ~Present(Given(last.recv.mapping[i][2])) =>
           Contains(tpl.raw, last.recv.mapping[i][1])

\* The same for a receiver that holds no present default: there the forked
\* text is made from R alone.
C12_ForkUsesOnlyGivenNoDefaults ==
  (Forked /\ \A n \in Names(last.recv) : ~Present(last.recv.replacements[n])) =>
    /\ tpl.raw = AppliedGiven
    /\ \A i \in 1..Len(last.recv.mapping) :
         ~Present(Given(last.recv.mapping[i][2])) =>
           Contains(tpl.raw, last.recv.mapping[i][1])

----------------------------------------------------------------------------
(* C13 *)

\* C13 (fork always succeeds): fork(R) does not throw, whatever R leaves
\* unresolved; it returns another object whose start tag, end tag and
\* pattern are those of the receiver.
C13_ForkSucceeds ==
  Forked =>
    /\ ~last.threw
    /\ tpl.id # last.recv.id
    /\ tpl.startTag = last.recv.startTag
    /\ tpl.endTag = last.recv.endTag
    /\ tpl.pattern = last.recv.pattern

\* a fork of a Template with tags of its own that leaves a span unresolved:
\* render(R, true) on the receiver would have thrown
C13_Witness ==
  /\ Forked
  /\ ~last.threw
  /\ last.recv.startTag = <<"{", "{">>
  /\ last.recv.endTag = <<"}", "}">>
  /\ tpl.placeholders # <<>>
  /\ render(last.recv, last.R, TRUE).threw

----------------------------------------------------------------------------
(* C14 *)

\* text with every occurrence of part replaced by exactly the characters of rep
RECURSIVE PutAllFrom(_, _, _, _)
PutAllFrom(text, part, rep, pos) ==
  LET i == IndexOf(text, part, pos)
  IN  IF i = 0 THEN SubSeq(text, pos, Len(text))
      ELSE SubSeq(text, pos, i - 1) \o rep \o PutAllFrom(text, part, rep, i + Len(part))

PutAll(text, part, rep) == PutAllFrom(text, part, rep, 1)

\* a start tag, a non-empty run of name characters and an end tag
IsSpan(s, startTag, endTag) ==
  /\ Len(s) > Len(startTag) + Len(endTag)
  /\ OccursAt(s, startTag, 1)
  /\ OccursAt(s, endTag, Len(s) - Len(endTag) + 1)
  /\ \A j \in 1..Len(Interior(s, startTag, endTag)) :
       Interior(s, startTag, endTag)[j] \in NameChars

\* span occurs in text at a place where no marker is doubled: the character
\* before it is not the start tag's first, the one after it not the end tag's
OccursUndoubled(text, span, startTag, endTag) ==
  \E i \in 1..Len(text) :
    /\ OccursAt(text, span, i)
    /\ i > 1 => text[i - 1] # startTag[1]
    /\ i + Len(span) <= Len(text) => text[i + Len(span)] # endTag[1]

\* the spans that are in the forked text only because a value of R held them
Introduced ==
  {s \in {ToStr(last.R[n]) : n \in {m \in DOMAIN last.R : Present(last.R[m])}} :
     /\ IsSpan(s, tpl.startTag, tpl.endTag)
     /\ ~Contains(last.recv.raw, s)
     /\ OccursUndoubled(tpl.raw, s, tpl.startTag, tpl.endTag)}

\* what being a live placeholder of tpl means for a span: it is listed, its
\* name has an entry among the defaults, and render with a present value v
\* for that name alone returns the text with the span replaced by v
Live(s, values) ==
  LET x == Interior(s, tpl.startTag, tpl.endTag)
  IN  /\ s \in Elems(tpl.placeholders)
      /\ x \in DOMAIN tpl.replacements
      /\ \A v \in values :
           render(tpl, (x :> v), FALSE).out = PutAll(tpl.raw, s, ToStr(v))

PresentValues == {v \in Values : Present(v)}

\* C14 (re-scan on fork): a span that a substituted value brought into the
\* forked text is a live placeholder of the forked Template.
C14_IntroducedSpanIsLive ==
  Forked => \A s \in Introduced : Live(s, PresentValues)

\* The same for a span that does not come to stand after a "|" and for values
\* whose text holds no "$": what is left of C14 once the dollar patterns of
\* replaceAll and the bar of the look-behind class are set aside.
C14_IntroducedSpanIsLiveNoBarNoDollar ==
  Forked =>
    \A s \in Introduced :
      ~Contains(tpl.raw, <<"|">> \o s) =>
        Live(s, {v \in PresentValues : "$" \notin Chars(ToStr(v))})

\* a fork into whose text a value brought a span
C14_Witness == Forked /\ Introduced # {}

----------------------------------------------------------------------------
(* C15 *)

\* the matches of the scan of tpl's text, with their positions
Matches == MatchAllFrom(tpl.pattern, tpl.raw, 1)

\* C15 (doubled start marker): no span the scanner reports stands right
\* after the first character of the start tag; with the default tags the
\* text "{{a}}" has an empty placeholder list and render({a: 5}) returns it
\* unchanged.
C15_LeadingGuard ==
  /\ LET ms == Matches
     IN  \A i \in 1..Len(ms) :
           ms[i].index > 1 => tpl.raw[ms[i].index - 1] # tpl.startTag[1]
  /\ (made.text = TextDoubled /\ DefaultTags) =>
       /\ tpl.placeholders = <<>>
       /\ tpl.mapping = <<>>
       /\ Returned("render") => last.out = TextDoubled

\* create("{{a}}").render({a: 5}) has returned
C15_Witness ==
  /\ made.text = TextDoubled
  /\ Created
  /\ Returned("render")
  /\ Given(nameA) = Num(5)
  /\ last.out = TextDoubled

----------------------------------------------------------------------------
(* C16 *)

\* the position right after a match
After(m) == m.index + Len(m.match)

\* "{a}}"
TextTrailingEnd == spanA \o <<"}">>

\* C16 (doubled end marker): no span the scanner reports is followed at once
\* by the first character of the end tag, whatever comes after that
\* character; with the default tags "{a}}" lists nothing.
C16_TrailingGuard ==
  /\ LET ms == Matches
     IN  \A i \in 1..Len(ms) :
           After(ms[i]) <= Len(tpl.raw) => tpl.raw[After(ms[i])] # tpl.endTag[1]
  /\ (made.text = TextTrailingEnd /\ DefaultTags) => tpl.placeholders = <<>>

\* What the pattern does reject: a span followed by the first character of
\* the end tag AND THEN A SPACE; "{a}} {b}" lists {b} alone.
C16_TrailingGuardBeforeSpace ==
  /\ LET ms == Matches
     IN  \A i \in 1..Len(ms) :
           After(ms[i]) + 1 <= Len(tpl.raw) =>
             ~(tpl.raw[After(ms[i])] = tpl.endTag[1] /\ tpl.raw[After(ms[i]) + 1] = " ")
  /\ (made.text = TextTrailing /\ DefaultTags) => tpl.placeholders = <<spanB>>

----------------------------------------------------------------------------
(* C17 *)

\* the positions of tpl's text at which the pattern matches
MatchPositions == {i \in 1..Len(tpl.raw) : MatchLen(tpl.pattern, tpl.raw, i) > 0}

\* C17 (scanner ordering): the placeholder list holds, in the order of the
\* text, the span found at each position where the pattern matches: the
\* entries stand at strictly increasing positions, none begins before the one
\* before it has ended, and each matching position gives an entry of its
\* own, so a span that occurs several times is listed several times.
\* "{a}{a}{a}{b}" lists {a} three times and then {b}.
C17_ScannerOrder ==
  /\ LET ms == Matches
         positions == MatchPositions
     IN  /\ tpl.placeholders = Matched(ms)
         /\ \A i \in 1..Len(ms) :
              /\ OccursAt(tpl.raw, ms[i].match, ms[i].index)
              /\ i < Len(ms) => After(ms[i]) <= ms[i + 1].index
         /\ {ms[i].index : i \in 1..Len(ms)} = positions
         /\ Len(tpl.placeholders) = Cardinality(positions)
  /\ (made.text = TextThrice /\ DefaultTags) =>
       tpl.placeholders = <<spanA, spanA, spanA, spanB>>

\* a Template made by a fork whose list holds the same span at two places
C17_Witness ==
  /\ forks = 1
  /\ LET ms == Matches
     IN  /\ Len(ms) >= 3
         /\ \E i, j \in 1..Len(ms) :
              /\ i < j
              /\ ms[i].match = ms[j].match
              /\ ms[i].index < ms[j].index

----------------------------------------------------------------------------
(* C18 *)

\* C18 (interior rule): every span the scanner reports is the start tag, a
\* non-empty run of letters, digits, "-" and "_", and the end tag.  Of
\* "{}{ }{a.b}{a-1_}" only {a-1_} is reported; "{}", "{ }" and "{a.b}" stay
\* as they are in what render returns, and of "{x{a}}" only the inner {a} is
\* reported.
C18_InteriorRule ==
  /\ \A i \in 1..Len(tpl.placeholders) :
       IsSpan(tpl.placeholders[i], tpl.startTag, tpl.endTag)
  /\ (made.text = TextMalformed /\ DefaultTags) =>
       /\ tpl.placeholders = <<spanDash>>
       /\ Returned("render") =>
            SubSeq(last.out, 1, 10) = SubSeq(TextMalformed, 1, 10)
  /\ (made.text = <<"{", "}">> /\ DefaultTags) =>
       /\ tpl.placeholders = <<>>
       /\ Returned("render") => last.out = <<"{", "}">>
  /\ (made.text = TextInside /\ DefaultTags) => tpl.placeholders = <<spanA>>

\* render has substituted the one well-formed span of "{}{ }{a.b}{a-1_}"
C18_Witness ==
  /\ made.text = TextMalformed
  /\ Returned("render")
  /\ last.out = SubSeq(TextMalformed, 1, 10) \o <<"v">>

----------------------------------------------------------------------------
(* C20 *)

\* a string that is not the empty one was given for a tag
GivenTag(element) == made.tags.given /\ element.k = "str" /\ element.s # <<>>

\* C20 (tag defaults): a Template made without tags has the start tag "{"
\* and the end tag "}"; each tag by itself is the string given for it, or its
\* default when that one is left out or is the empty string; no tag is ever
\* empty.
C20_TagDefaults ==
  tpl # NoObject =>
    /\ ~made.tags.given => (tpl.startTag = <<"{">> /\ tpl.endTag = <<"}">>)
    /\ tpl.startTag = IF GivenTag(made.tags.start) THEN made.tags.start.s ELSE <<"{">>
    /\ tpl.endTag = IF GivenTag(made.tags.end) THEN made.tags.end.s ELSE <<"}">>
    /\ tpl.startTag # <<>>
    /\ tpl.endTag # <<>>

\* a Template made with a start tag of its own and no end tag, that found a
\* placeholder between "{{" and the default "}"
C20_Witness ==
  /\ made.tags = TagsOf(Str(<<"{", "{">>), Undef)
  /\ tpl.startTag = <<"{", "{">>
  /\ tpl.endTag = <<"}">>
  /\ tpl.placeholders # <<>>

----------------------------------------------------------------------------
(* C19 *)

\* the tags the last constructor call worked with
UsedStart == TagOr(made.tags, made.tags.start, DEFAULT_START_TAG)

UsedEnd == TagOr(made.tags, made.tags.end, DEFAULT_END_TAG)

\* the characters that mean something in a pattern and make new RegExp
\* throw in one tag or another of this model
Breaking == {"*", "(", "[", "\\"}

Constructed == last.op = "new" /\ ~last.threw

\* C19 (construction never fails): new TemplateString(text, tags) returns
\* for every text and every pair of tags, "*", "(", "[", "$" and the
\* backslash among their characters; and when the scan of the text finds no
\* placeholder, the list, the mapping and the defaults are empty.
C19_ConstructionNeverFails ==
  last.op = "new" =>
    /\ ~last.threw
    /\ tpl.placeholders = <<>> => (tpl.mapping = <<>> /\ DOMAIN tpl.replacements = {})

\* What holds: the constructor throws exactly when the text it hands to new
\* RegExp is no pattern; it returns whenever no tag holds one of the
\* breaking characters; it returns for the tags "$"; and a Template without
\* placeholders has an empty mapping and no defaults.
C19_ConstructionFailsOnlyOnPattern ==
  /\ last.op = "new" =>
       (last.threw <=> ~Compiles(PatternSource(UsedStart, UsedEnd), 1, <<>>, "none"))
  /\ (last.op = "new" /\ (Chars(UsedStart) \cup Chars(UsedEnd)) \cap Breaking = {}) =>
       ~last.threw
  /\ (Constructed /\ tpl.placeholders = <<>>) =>
       (tpl.mapping = <<>> /\ DOMAIN tpl.replacements = {})
  /\ (Constructed /\ UsedStart = <<"$">>) => tpl.placeholders = <<>>

----------------------------------------------------------------------------
(* C21 *)

\* the call of caller c has ended
Ended(c, op) == calls[c].op = op /\ calls[c].pc = "done"

\* C21 (interleaving safety): when several callers run render, with or
\* without validation, and fork on one Template, their statements in any
\* order, each call that ends has the outcome the same call has when it runs
\* alone on the Template as it was when the call began: render the same text
\* or the same error, fork the same new Template; the Template the callers
\* share is at all times as its constructor left it; and the Templates that
\* the fork calls of different callers made are different objects, none of
\* them the shared one.
C21_InterleavingSafety ==
  /\ tpl = made.obj
  /\ \A c \in Callers :
       /\ Ended(c, "render") =>
            LET alone == render(calls[c].recv, calls[c].R, calls[c].check)
            IN  /\ calls[c].threw = alone.threw
                /\ calls[c].out = alone.out
                /\ calls[c].cause = alone.cause
       /\ Ended(c, "fork") =>
            LET alone == fork(calls[c].recv, calls[c].R, calls[c].new.id)
            IN  /\ calls[c].threw = alone.threw
                /\ calls[c].new = alone.new
                /\ calls[c].new.id # tpl.id
  /\ \A c, d \in Callers :
       (c # d /\ Ended(c, "fork") /\ Ended(d, "fork")) =>
         calls[c].new.id # calls[d].new.id

\* two calls that ran at the same time have ended: a render with validation
\* that began while the other caller's fork was in the middle of its loop,
\* given a value that is itself a span, and that fork
C21_Witness ==
  /\ Ended("c1", "render") /\ calls["c1"].check /\ calls["c1"].amid
  /\ calls["c1"].R[nameA] = Str(spanB)
  /\ calls["c1"].steps = 2
  /\ Ended("c2", "fork") /\ calls["c2"].steps = 2
  /\ calls["c2"].new.raw # tpl.raw

----------------------------------------------------------------------------
(* C22 *)

\* the distinct spans the scanner finds in the text of a Template
Spans(t) == Elems(Matched(MatchAllFrom(t.pattern, t.raw, 1)))

\* the call of caller c is under way
Busy(c) == calls[c].pc \notin {"idle", "done"}

\* the turns and scans of the render in a render or fork call: never more
\* turns than the Template's text has distinct spans nor more than one scan,
\* and at the end one turn for each distinct span, and a scan exactly when
\* render validates
StepBound ==
  \A c \in Callers :
    LET spans == Cardinality(Spans(calls[c].recv))
    IN  calls[c].op \in {"render", "fork"} =>
          /\ calls[c].steps <= spans
          /\ calls[c].steps <= Len(calls[c].recv.placeholders)
          /\ calls[c].scans <= 1
          /\ calls[c].pc = "done" =>
               /\ calls[c].steps = spans
               /\ calls[c].op = "render" =>
                    calls[c].scans = IF calls[c].check THEN 1 ELSE 0

\* C22 (termination): every constructor, render, validate and fork call that
\* has begun ends, by returning or by throwing; and render makes exactly one
\* turn of its loop for each distinct span the scanner found in the
\* Template's text at construction, and at most one scan, whatever the
\* values hold, spans among them.
C22_Termination ==
  /\ []StepBound
  /\ \A c \in Callers : Busy(c) ~> (calls[c].pc = "done")

\* a render with validation has ended after two turns and one scan, on a
\* text where one span stands twice, with a value that is itself the span of
\* the other name
C22_Witness ==
  \E c \in Callers :
    /\ Ended(c, "render") /\ calls[c].check
    /\ calls[c].R[nameA] = Str(spanB)
    /\ Len(calls[c].recv.placeholders) = 3
    /\ calls[c].steps = 2 /\ calls[c].scans = 1

----------------------------------------------------------------------------
(* C23 *)

\* the default the Template stores for a name
Stored(name) == tpl.replacements[name]

\* the replacements of the last call with the key N left out, and with the
\* value v for N
Without(N) == [n \in DOMAIN last.R \ {N} |-> last.R[n]]

WithValue(N, v) == [last.R EXCEPT ![N] = v]

\* the text that replaceAll puts for a span when given the value v
TextFor(span, v) == GetSubstitution(span, span, 1, ToStr(v))

\* the span of N is left unresolved in the returned text: it stands there,
\* and no value that was substituted brought any of its characters
Unresolved(i) ==
  LET span == tpl.mapping[i][1]
  IN  /\ Contains(last.out, span)
      /\ \A j \in 1..Len(tpl.mapping) :
           LET v == Coalesce(Given(tpl.mapping[j][2]), Stored(tpl.mapping[j][2]))
           IN  Present(v) =>
                 Chars(TextFor(tpl.mapping[j][1], v)) \cap Chars(span) = {}

\* C23 (an absent override does not unset a default): a render call whose
\* override for N is null or undefined has the outcome of the same call
\* without the key N, with null and with undefined alike, so a present stored
\* default of N is substituted as render({}) substitutes it; when the
\* override and the stored default of N are both absent the span of N stays
\* in the returned text; and the span of N is left unresolved only then.
C23_AbsentOverrideKeepsDefault ==
  /\ last.op = "render" =>
       \A N \in DOMAIN last.R :
         ~Present(last.R[N]) =>
           LET without == render(tpl, Without(N), last.check)
               null == render(tpl, WithValue(N, Null), last.check)
               undefined == render(tpl, WithValue(N, Undef), last.check)
           IN  /\ null = without
               /\ undefined = without
               /\ last.threw = without.threw
               /\ last.out = without.out
  /\ Returned("render") =>
       \A i \in 1..Len(tpl.mapping) :
         LET N == tpl.mapping[i][2]
             absent == ~Present(Given(N)) /\ ~Present(Stored(N))
         IN  /\ absent => Contains(last.out, tpl.mapping[i][1])
             /\ Unresolved(i) => absent

\* a render given null for a name whose stored default is present returned
\* the text with the default in place of the span
C23_Witness ==
  /\ Returned("render")
  /\ DefaultTags
  /\ \E i \in 1..Len(tpl.mapping) :
       LET N == tpl.mapping[i][2]
       IN  /\ Given(N) = Null
           /\ Stored(N) = Str(<<"d">>)
           /\ ~Contains(last.out, tpl.mapping[i][1])
           /\ Contains(last.out, <<"d">>)

----------------------------------------------------------------------------
(* C24 *)

\* the distinct spans of the Template's text in the order of their first
\* occurrence
Visited == Distinct(Scan(tpl.raw))

\* the value the last render resolved for the i-th visited span
ValueAt(i) == Coalesce(Given(tpl.mapping[i][2]), Stored(tpl.mapping[i][2]))

\* the text after the first k turns of a substitution that goes span by span
\* on the text as the turns before left it
RECURSIVE AfterTurns(_)
AfterTurns(k) ==
  IF k = 0 THEN tpl.raw
  ELSE IF Present(ValueAt(k))
  THEN ReplaceAll(AfterTurns(k - 1), Visited[k], ToStr(ValueAt(k)))
  ELSE AfterTurns(k - 1)

\* the substitution made at once on the original text: from position pos on,
\* every occurrence of a visited span with a present value gives that value's
\* text, and what a value brings is not looked at again
RECURSIVE AtOnceFrom(_, _)
AtOnceFrom(text, pos) ==
  IF pos > Len(text) THEN <<>>
  ELSE LET here == {i \in 1..Len(Visited) :
                      Present(ValueAt(i)) /\ OccursAt(text, Visited[i], pos)}
       IN  IF here = {} THEN <<text[pos]>> \o AtOnceFrom(text, pos + 1)
           ELSE LET i == CHOOSE i \in here : TRUE
                IN  TextFor(Visited[i], ValueAt(i))
                    \o AtOnceFrom(text, pos + Len(Visited[i]))

AtOnce == AtOnceFrom(tpl.raw, 1)

\* C24 (sequential substitution): render visits the distinct spans in the
\* order of their first occurrence in the original text and substitutes each
\* on the text as the turns before left it.  So when the value of a span holds
\* the span of one visited later, whose value is present, that span is
\* substituted too and is gone from the result unless a value of that or a
\* later turn holds it; and when a value holds the span of one visited
\* earlier, or of a name the Template does not know, that span stands in the
\* result as given.
C24_SequentialSubstitution ==
  Returned("render") =>
    /\ [i \in 1..Len(tpl.mapping) |-> tpl.mapping[i][1]] = Visited
    /\ last.out = AfterTurns(Len(Visited))
    /\ \A i, j \in 1..Len(Visited) :
         (/\ i < j
          /\ Present(ValueAt(i)) /\ Contains(ToStr(ValueAt(i)), Visited[j])
          /\ Present(ValueAt(j))
          /\ \A k \in j..Len(Visited) :
               Present(ValueAt(k)) =>
                 ~Contains(TextFor(Visited[k], ValueAt(k)), Visited[j]))
         => ~Contains(last.out, Visited[j])
    /\ \A j \in 1..Len(Visited) :
         (Present(ValueAt(j)) /\ "$" \notin Chars(ToStr(ValueAt(j)))) =>
           /\ \A i \in 1..(j - 1) :
                Contains(ToStr(ValueAt(j)), Visited[i]) => Contains(last.out, Visited[i])
           /\ \A span \in {spanA, spanB} :
                (Contains(ToStr(ValueAt(j)), span)
                 /\ \A i \in 1..Len(Visited) : Visited[i] # span)
                => Contains(last.out, span)

\* a render whose value for the first span is the span of the second, with a
\* present value for the second: the result holds that value twice and is
\* not what the substitution at once gives
C24_Witness ==
  /\ Returned("render")
  /\ Len(Visited) = 2
  /\ ValueAt(1) = Str(Visited[2])
  /\ ValueAt(2) = Str(<<"v">>)
  /\ ~Contains(last.out, Visited[2])
  /\ Count(last.out, <<"v">>) >= 2
  /\ last.out # AtOnce
  /\ Contains(AtOnce, Visited[2])

----------------------------------------------------------------------------
(* C25 *)

\* every substituted value is a plain text: none of its characters is a
\* character of a span, and it holds no "$"
PlainValuesOnly ==
  \A i \in 1..Len(Visited) :
    Present(ValueAt(i)) =>
      \A j \in 1..Len(Visited) :
        Chars(ToStr(ValueAt(i))) \cap (Chars(Visited[j]) \cup {"$"}) = {}

\* the text with the occurrences the scanner reported replaced by their
\* values and every other character as written: from position pos on
RECURSIVE ReportedOnlyFrom(_, _)
ReportedOnlyFrom(text, pos) ==
  IF pos > Len(text) THEN <<>>
  ELSE LET ms == Matches
           here == {k \in 1..Len(ms) : ms[k].index = pos}
       IN  IF here = {} THEN <<text[pos]>> \o ReportedOnlyFrom(text, pos + 1)
           ELSE LET m == ms[CHOOSE k \in here : TRUE]
                    i == CHOOSE i \in 1..Len(Visited) : Visited[i] = m.match
                IN  IF Present(ValueAt(i))
                    THEN ToStr(ValueAt(i)) \o ReportedOnlyFrom(text, pos + Len(m.match))
                    ELSE <<text[pos]>> \o ReportedOnlyFrom(text, pos + 1)

\* an occurrence of a visited span in the Template's text that the scanner
\* did not report
Guarded(i, pos) ==
  /\ OccursAt(tpl.raw, Visited[i], pos)
  /\ \A k \in 1..Len(Matches) : Matches[k].index # pos

\* C25 (only reported occurrences are altered): render, given plain values,
\* returns the Template's text with the occurrences the scanner reported
\* replaced and every other character as written; an occurrence of the same
\* span that the guards rejected, as the second one of "{a} {{a}}", stays.
C25_GuardedOccurrenceKept ==
  (Returned("render") /\ PlainValuesOnly) =>
    last.out = ReportedOnlyFrom(tpl.raw, 1)

\* What holds: render replaces every occurrence of a span of its mapping,
\* reported or not; the result is the text of the reported-only substitution
\* exactly when no span with a present value has an occurrence that the
\* scanner did not report.
C25_EveryOccurrenceReplaced ==
  (Returned("render") /\ PlainValuesOnly) =>
    /\ last.out = AtOnce
    /\ (last.out = ReportedOnlyFrom(tpl.raw, 1))
         <=> ~\E i \in 1..Len(Visited), pos \in 1..Len(tpl.raw) :
                Present(ValueAt(i)) /\ Guarded(i, pos)

-----------------------------------------------------------------------------
(* C26 *)

\* the values that are present and falsy
Falsy == {Num(0), Bool(FALSE), Str(<<>>)}

\* the text that stands for a falsy value
Shown(v) ==
  CASE v = Num(0) -> <<"0">>
    [] v = Bool(FALSE) -> <<"f", "a", "l", "s", "e">>
    [] OTHER -> <<>>

Nullish == {Undef, Null}

\* the value render is to use for a name: the override, or the construction
\* default when the override is null or undefined
Chosen(N) == IF Given(N) \in Nullish THEN CtorDefault(N) ELSE Given(N)

\* a falsy value stands for N, as the override or as the construction default
FalsyFor(N) ==
  \/ Given(N) \in Falsy
  \/ Given(N) \in Nullish /\ CtorDefault(N) \in Falsy

\* the value of the j-th span puts a character of a tag into the text
BringsTag(j) ==
  LET v == Chosen(tpl.mapping[j][2])
  IN  /\ v \notin Nullish
      /\ Chars(TextFor(tpl.mapping[j][1], v))
           \cap (Chars(tpl.startTag) \cup Chars(tpl.endTag)) # {}

\* C26 (presence is decided by null and undefined only): 0, false and "",
\* given to render or at construction, count as present: the Template stores
\* such a default as it is, every occurrence of the span is replaced by "0",
\* "false" or "", and render with validation does not report the span as
\* missing.
C26_FalsyValuesArePresent ==
  /\ \A N \in DOMAIN made.replacements :
       (made.replacements[N] \in Falsy /\ N \in DOMAIN tpl.replacements) =>
         tpl.replacements[N] = made.replacements[N]
  /\ last.op = "render" =>
       \A i \in 1..Len(tpl.mapping) :
         LET span == tpl.mapping[i][1]
             N == tpl.mapping[i][2]
             others == {j \in 1..Len(tpl.mapping) : j # i}
         IN  FalsyFor(N) =>
               /\ (~last.threw /\ \A j \in others : ~BringsTag(j)) =>
                    ~Contains(last.out, span)
               /\ (~last.threw
                     /\ \A j \in others : Chosen(tpl.mapping[j][2]) \in Nullish) =>
                    last.out = PutAll(tpl.raw, span, Shown(Chosen(N)))
               /\ (last.threw /\ \A j \in others : ~BringsTag(j)) =>
                    \A k \in 1..Len(last.cause.missingReplacements) :
                      last.cause.missingReplacements[k] # span

\* a render with validation returned with "" given for one name and false
\* as the construction default of another, neither span in the text
C26_Witness ==
  /\ Returned("render")
  /\ last.check
  /\ \E i, j \in 1..Len(tpl.mapping) :
       /\ Given(tpl.mapping[i][2]) = Str(<<>>)
       /\ Given(tpl.mapping[j][2]) \in Nullish
       /\ CtorDefault(tpl.mapping[j][2]) = Bool(FALSE)
       /\ Contains(tpl.raw, tpl.mapping[i][1])
       /\ Contains(tpl.raw, tpl.mapping[j][1])
       /\ ~Contains(last.out, tpl.mapping[i][1])
       /\ ~Contains(last.out, tpl.mapping[j][1])
       /\ Contains(last.out, <<"f", "a", "l", "s", "e">>)

-----------------------------------------------------------------------------
(* C27 *)

\* a well-formed span of tpl's text that stands right after a "|"
BarPreceded(span, pos) ==
  /\ pos > 1
  /\ tpl.raw[pos - 1] = "|"
  /\ OccursAt(tpl.raw, span, pos)
  /\ IsSpan(span, tpl.startTag, tpl.endTag)
  /\ ~Contains(Interior(span, tpl.startTag, tpl.endTag), tpl.startTag)

BarPrecededSpans ==
  {span \in {SubSeq(tpl.raw, pos, to) : pos \in 2..Len(tpl.raw), to \in 2..Len(tpl.raw)} :
     \E pos \in 2..Len(tpl.raw) : BarPreceded(span, pos)}

\* the span has an occurrence in tpl's text that the scanner reported
Reported(span) == \E k \in 1..Len(Matches) : Matches[k].match = span

\* the last call was a render whose values are absent or plain texts
PlainRender ==
  /\ last.op = "render"
  /\ \A n \in DOMAIN last.R : ~Present(last.R[n]) \/ last.R[n] = Str(<<"v">>)
  /\ \A n \in DOMAIN tpl.replacements :
       ~Present(tpl.replacements[n]) \/ tpl.replacements[n] \in {Str(<<"d">>), Str(<<"e">>)}

\* the text of the last render before any validation holds as many "|span"
\* as the Template's text
BarKept(span) ==
  Count(Rendered, <<"|">> \o span) = Count(tpl.raw, <<"|">> \o span)

\* C27 (a span after "|" is no placeholder): under default tags the scanner
\* reports no span at a position right after "|"; a render with plain values
\* leaves each such occurrence as written; and a span that stands only at
\* such positions is not in the placeholder list, its name is not in the
\* contract, and no failed validation lists it as missing.
C27_BarPrecededSpanIgnored ==
  DefaultTags =>
    \A span \in BarPrecededSpans :
      /\ \A k \in 1..Len(Matches) : ~BarPreceded(span, Matches[k].index)
      /\ PlainRender => BarKept(span)
      /\ ~Reported(span) =>
           /\ \A i \in 1..Len(tpl.placeholders) : tpl.placeholders[i] # span
           /\ Interior(span, tpl.startTag, tpl.endTag) \notin DOMAIN tpl.replacements
           /\ (PlainRender \/ (last.op = "validate" /\ last.text = tpl.raw)) =>
                \A k \in 1..Len(last.cause.missingReplacements) :
                  last.cause.missingReplacements[k] # span

\* What holds: a span that the scanner reported nowhere in the text is left
\* alone by everything; an occurrence after "|" of a span that is reported
\* elsewhere is replaced with the others.
C27_UnreportedSpanIgnored ==
  DefaultTags =>
    \A span \in BarPrecededSpans :
      /\ \A k \in 1..Len(Matches) : ~BarPreceded(span, Matches[k].index)
      /\ PlainRender =>
           (BarKept(span)
              <=> (~Reported(span)
                     \/ ~Present(Resolved(Interior(span, tpl.startTag, tpl.endTag)))))
      /\ ~Reported(span) =>
           /\ \A i \in 1..Len(tpl.placeholders) : tpl.placeholders[i] # span
           /\ Interior(span, tpl.startTag, tpl.endTag) \notin DOMAIN tpl.replacements
           /\ (PlainRender \/ (last.op = "validate" /\ last.text = tpl.raw)) =>
                \A k \in 1..Len(last.cause.missingReplacements) :
                  last.cause.missingReplacements[k] # span

====
